---- MODULE Spec2Model ----
(***************************************************************************)
(* Model of the OCPP 1.6J central system of DjangoOCPP:                    *)
(*   - api/consumers.py   OcppConsumer.receive (inbound dispatcher and     *)
(*                        CallResult linkage),                             *)
(*   - ocpp_lib/call.py   Call.CallHandler.issue_command, __save_call and  *)
(*                        __await_response (outbound calls, polling wait), *)
(*   - api/models.py      the Call and CallResult tables,                  *)
(*   - ocpp_lib/enums.py  OCPPMessageType and OCPPCommands,                *)
(*   - ocpp_lib/types.py  OcppType, its constructor and serialize, and     *)
(*                        ocpp_lib/decorators.py for the handlers.         *)
(* A JSON frame is a tuple whose first element is the integer message type *)
(* and whose other elements are strings.  Database rows are records, a     *)
(* table is the sequence of its rows and a primary key is an index into    *)
(* it (0 stands for NULL).                                                 *)
(***************************************************************************)
EXTENDS Integers, Sequences, FiniteSets, TLC

(***************************************************************************)
(* Bounds of the model.                                                    *)
(***************************************************************************)
MaxRecv == 2          \* frames received over all connections
MaxTasks == 2         \* callers of issue_command
MaxAwaitPeriod == 2   \* await_period ranges over 1..MaxAwaitPeriod seconds
MaxClock == 1         \* datetime.utcnow() ranges over 0..MaxClock

Chargers == {"CP1", "CP2"}
MsgIds == {"m1", "m2"}
Payloads == {"Accepted", "Rejected"}
Tasks == 1..MaxTasks
AwaitPeriods == 1..MaxAwaitPeriod
AwaitIntervals == {2}

(***************************************************************************)
(* ocpp_lib/enums.py                                                       *)
(***************************************************************************)
CALL == 2
CALL_RESULT == 3
CALL_ERROR == 4

OCPPMessageType == {CALL, CALL_RESULT, CALL_ERROR}

\* The members of the OCPPCommands enum in declaration order; auto() gives
\* the n-th member the value n.
OCPPCommandNames ==
    << "Authorize", "BootNotification", "CancelReservation",
       "ChangeAvailability", "ChangeConfiguration", "ClearCache",
       "ClearChargingProfile", "DataTransfer",
       "DiagnosticsStatusNotification", "FirmwareStatusNotification",
       "GetCompositeSchedule", "GetConfiguration", "GetDiagnostics",
       "GetLocalListVersion", "Heartbeat", "MeterValues",
       "RemoteStartTransaction", "RemoteStopTransaction", "ReserveNow",
       "SendLocalList", "SetChargingProfile", "StartTransaction",
       "StatusNotification", "StopTransaction", "TriggerMessage",
       "UnlockConnector", "UpdateFirmware" >>

OCPPCommands == {OCPPCommandNames[n] : n \in DOMAIN OCPPCommandNames}

\* action.value as it is written to a CharField.
OCPPCommandValue(name) ==
    ToString(CHOOSE n \in DOMAIN OCPPCommandNames : OCPPCommandNames[n] = name)

(***************************************************************************)
(* ocpp_lib/call.py, class Call.Callbacks: the handlers that exist.        *)
(***************************************************************************)
Callbacks ==
    { "Authorize", "BootNotification", "StatusNotification",
      "StartTransaction", "StopTransaction", "MeterValues", "Heartbeat",
      "FirmwareStatusNotification", "DiagnosticsStatusNotification",
      "DataTransfer" }

\* The serialized payload a handler returns: every handler ignores
\* call_payload and returns a constant <Action>_Conf object.
ConfPayload(action) == action \o "_Conf"

\* decorators.call_result_message_decorator: [3, message_id, payload].
\* call_result_message_stale is a decorator that answers with an id of its
\* own instead of the message_id keyword argument.
call_result_message_stale(message_id, action) ==
    << CALL_RESULT, "m1", ConfPayload(action) >>

call_result_message(message_id, action) ==
    << CALL_RESULT, message_id, ConfPayload(action) >>

(***************************************************************************)
(* Frames a charge point may send.                                         *)
(***************************************************************************)
\* Every charge point sends well-formed frames with any of the message ids;
\* the frames that only differ in how they are rejected come from CP1.
FrameActions == {"BootNotification", "RemoteStartTransaction", "Bogus"}

CallFrames ==
    { << CALL, m, "BootNotification", "{}" >> : m \in MsgIds }
        \cup { << CALL, "m1", a, "{}" >> : a \in FrameActions }
CallResultFrames ==
    { << CALL_RESULT, "m1", p >> : p \in Payloads }
        \cup { << CALL_RESULT, m, "Accepted" >> : m \in MsgIds }
CallErrorFrames == { << CALL_ERROR, "m1", "GenericError", "", "{}" >> }
MalformedFrames ==
    { << >>, << 9, "m1" >>, << CALL, "m1" >>, << CALL_RESULT, "m1" >> }

Frames ==
    CallFrames \cup CallResultFrames \cup CallErrorFrames \cup MalformedFrames

FramesOf(charger_id) ==
    IF charger_id = "CP1"
    THEN Frames
    ELSE { << CALL, "m1", "BootNotification", "{}" >> }
            \cup { << CALL_RESULT, m, "Accepted" >> : m \in MsgIds }

\* Chargers and message ids are interchangeable, so the first caller's target
\* and the id random_message_id draws for it are fixed; the second caller
\* may repeat them or differ.
TargetsOf(t) == IF t = 1 THEN {"CP1"} ELSE Chargers
RandomIds(t) == IF t = 1 THEN {"m1"} ELSE MsgIds

(***************************************************************************)
(* Requests a caller may hand to issue_command.  class_is_str tells        *)
(* whether request.__class__ is a string (an object that overrides         *)
(* __class__) or a type, as for every instance of an ocpp_lib.types class; *)
(* class_name is the last dotted segment of that string or the name of the *)
(* type; type_name is the name of type(request).                           *)
(***************************************************************************)
TypesModuleNames ==
    {"RemoteStartTransaction_Req", "RemoteStopTransaction_Req", "IdToken"}

Requests ==
    { [class_is_str |-> FALSE, class_name |-> "RemoteStartTransaction_Req",
       type_name |-> "RemoteStartTransaction_Req"],
      [class_is_str |-> TRUE, class_name |-> "RemoteStartTransaction_Req",
       type_name |-> "RemoteStartTransaction_Req"],
      [class_is_str |-> FALSE, class_name |-> "Bogus_Req",
       type_name |-> "Bogus_Req"],
      [class_is_str |-> TRUE, class_name |-> "IdToken",
       type_name |-> "Bogus_Req"],
      [class_is_str |-> TRUE, class_name |-> "Unknown_Req",
       type_name |-> "RemoteStartTransaction_Req"] }

\* The request slot of a caller that has not called issue_command yet.
NoRequest ==
    [class_is_str |-> FALSE, class_name |-> "", type_name |-> ""]

(***************************************************************************)
(* ocpp_lib/types.py: the typed payloads.  A Python value is a record with *)
(* a kind: None, an int, a str, a member of an Enum (with its value), a    *)
(* datetime, a list, a dict, or an instance of a subclass of OcppType with *)
(* its private __data.  NotPassed stands for a parameter the caller leaves *)
(* out of the call, and a raised exception is a value of kind "raise".  A  *)
(* float is kept as its decimal numeral.                                   *)
(***************************************************************************)
PyNone == [kind |-> "None"]
NotPassed == [kind |-> "NotPassed"]
PyInt(n) == [kind |-> "int", n |-> n]
PyStr(s) == [kind |-> "str", s |-> s]
PyFloat(x) == [kind |-> "float", x |-> x]
PyBool(b) == [kind |-> "bool", b |-> b]
PyEnum(value) == [kind |-> "enum", value |-> value]
PyDatetime(t) == [kind |-> "datetime", t |-> t]
PyList(items) == [kind |-> "list", items |-> items]
PyDict(data) == [kind |-> "dict", data |-> data]
PyObject(class, data) == [kind |-> "object", class |-> class, data |-> data]
PyRaise(exc) == [kind |-> "raise", exc |-> exc]

\* The signatures of the constructors: the parameters without a default,
\* the parameters with the default None, and the parameters the constructor
\* wraps in a list when the argument is not a list (types.py:224, 863).
TypeClasses ==
    { "IdToken", "BootNotification_Conf", "RemoteStartTransaction_Req",
      "GetConfiguration_Req", "ChargingSchedulePeriod", "ChargingSchedule" }

RequiredFields(class) ==
    CASE class = "IdToken" -> {"IdToken"}
      [] class = "BootNotification_Conf" -> {"currentTime", "interval", "status"}
      [] class = "RemoteStartTransaction_Req" -> {"idTag"}
      [] class = "GetConfiguration_Req" -> {}
      [] class = "ChargingSchedulePeriod" -> {"startPeriod", "limit"}
      [] class = "ChargingSchedule" ->
            {"chargingRateUnit", "chargingSchedulePeriod"}

OptionalFields(class) ==
    CASE class = "IdToken" -> {}
      [] class = "BootNotification_Conf" -> {}
      [] class = "RemoteStartTransaction_Req" -> {"chargingProfile", "connectorId"}
      [] class = "GetConfiguration_Req" -> {"key"}
      [] class = "ChargingSchedulePeriod" -> {"numberPhases"}
      [] class = "ChargingSchedule" ->
            {"duration", "startSchedule", "minChargingRate"}

ListFields(class) ==
    CASE class = "GetConfiguration_Req" -> {"key"}
      [] class = "ChargingSchedule" -> {"chargingSchedulePeriod"}
      [] OTHER -> {}

Fields(class) == RequiredFields(class) \cup OptionalFields(class)

\* types.py:224, 863: value if isinstance(value, list) else [value].
AsList(value) ==
    IF value.kind = "list" THEN value ELSE PyList(<< value >>)

\* OcppType.__init__, types.py:41: the keyword arguments whose value is not
\* None.
OcppInit(class, kwargs) ==
    PyObject(class,
             [key \in {k \in DOMAIN kwargs : kwargs[k].kind # "None"}
                |-> kwargs[key]])

\* <class>.__init__(**args): Python raises TypeError for a parameter without
\* default that is not passed; the others default to None; accepted_args are
\* the locals, after the list cast where the constructor has one.
Construct(class, args) ==
    IF \E p \in RequiredFields(class) : args[p].kind = "NotPassed"
    THEN PyRaise("TypeError")
    ELSE LET given == [p \in Fields(class) |->
                          IF args[p].kind = "NotPassed" THEN PyNone
                          ELSE args[p]]
             accepted_args == [p \in Fields(class) |->
                          IF p \in ListFields(class) THEN AsList(given[p])
                          ELSE given[p]]
         IN  OcppInit(class, accepted_args)

\* datetime.isoformat() of the t-th second of the model's clock.
IsoFormat(t) ==
    "2021-06-12T00:00:0" \o ToString(t)

\* OcppType.serialize, types.py:43-90.  single_value_serialize returns the
\* value of an Enum member, the isoformat of a datetime, the serialize() of
\* a nested OcppType, an int, float, bool or str as it is; for a list it
\* iterates over the builtin type list, which raises TypeError; anything
\* else raises ValueError.  An exception of a value is the exception of
\* serialize (the values of the model raise no two different ones within
\* one object).  single_value_serialize_emitting is a serializer that puts
\* the repr of a value of an unknown kind where the code raises.
RECURSIVE serialize(_)
single_value_serialize_emitting(value) ==
    CASE value.kind = "enum" -> PyStr(value.value)
      [] value.kind = "datetime" -> PyStr(IsoFormat(value.t))
      [] value.kind = "object" -> serialize(value)
      [] value.kind \in {"int", "float", "bool", "str"} -> value
      [] value.kind = "list" -> PyRaise("TypeError")
      [] OTHER -> PyStr("repr")

single_value_serialize(value) ==
    CASE value.kind = "enum" -> PyStr(value.value)
      [] value.kind = "datetime" -> PyStr(IsoFormat(value.t))
      [] value.kind = "object" -> serialize(value)
      [] value.kind \in {"int", "float", "bool", "str"} -> value
      [] value.kind = "list" -> PyRaise("TypeError")
      [] OTHER -> PyRaise("ValueError")

serialize(object) ==
    LET out == [key \in DOMAIN object.data |->
                   single_value_serialize(object.data[key])]
        failed == {key \in DOMAIN out : out[key].kind = "raise"}
    IN  IF failed # {}
        THEN out[CHOOSE key \in failed : TRUE]
        ELSE PyDict(out)

\* decorators.py:101: function(*args, **kwargs).serialize(), for a function
\* that returns response or raises it: only an OcppType has the method.
function_serialize(response) ==
    CASE response.kind = "raise" -> response
      [] response.kind = "object" -> serialize(response)
      [] OTHER -> PyRaise("AttributeError")

\* decorators.call_result_message_decorator.inner, decorators.py:97-125, for
\* a function that returns response (or raises it) and is called with the
\* keyword message_id: the payload is function().serialize() or, when that
\* raises, what a second call function() returns, and must be a dict.
call_result_message_decorator(response, message_id) ==
    LET serialized == function_serialize(response)
        payload == IF serialized.kind = "raise" THEN response ELSE serialized
    IN  IF payload.kind = "raise"
        THEN payload
        ELSE IF payload.kind # "dict"
        THEN PyRaise("ValueError")
        ELSE PyList(<< PyInt(CALL_RESULT), PyStr(message_id), payload >>)

\* decorators.py:100-103: how often inner calls the function: once in the
\* try block and once more in the except block when the try block raised.
function_calls(response) ==
    IF function_serialize(response).kind = "raise" THEN 2 ELSE 1

\* Call.Callbacks.BootNotification, call.py:267-289; utcnow is the value of
\* datetime.datetime.utcnow().  BootNotificationPending is a handler that
\* answers with the status Pending.
BootNotificationPending(message_id, call_payload, utcnow) ==
    call_result_message_decorator(
        Construct("BootNotification_Conf",
                  [currentTime |-> PyDatetime(utcnow), interval |-> PyInt(10),
                   status |-> PyEnum("Pending")]),
        message_id)

BootNotification(message_id, call_payload, utcnow) ==
    call_result_message_decorator(
        Construct("BootNotification_Conf",
                  [currentTime |-> PyDatetime(utcnow), interval |-> PyInt(10),
                   status |-> PyEnum("Accepted")]),
        message_id)

(***************************************************************************)
(* The wire form of a frame.  json.dumps turns a Python value into a JSON  *)
(* text, here the tree of the JSON values the text denotes: None becomes   *)
(* null, a bool a literal, an int or float a number, a str a string, a     *)
(* list or tuple an array, a dict an object; a value of any other type     *)
(* raises TypeError.  json.loads reads null, literals, numbers, strings,   *)
(* arrays and objects back as None, bool, int or float, str, list, dict.   *)
(***************************************************************************)
JsonNull == [kind |-> "null"]
JsonLiteral(b) == [kind |-> "literal", b |-> b]
JsonInteger(n) == [kind |-> "integer", n |-> n]
JsonReal(x) == [kind |-> "real", x |-> x]
JsonString(s) == [kind |-> "string", s |-> s]
JsonArray(items) == [kind |-> "array", items |-> items]
JsonObject(data) == [kind |-> "object", data |-> data]

\* json.dumps(value), consumers.py:122 and call.py:220.  json_dumps_str
\* writes a dict as the string str(dict), the form the payload column of
\* the tables keeps.
RECURSIVE json_dumps(_)
json_dumps_str(value) ==
    CASE value.kind = "None" -> JsonNull
      [] value.kind = "bool" -> JsonLiteral(value.b)
      [] value.kind = "int" -> JsonInteger(value.n)
      [] value.kind = "float" -> JsonReal(value.x)
      [] value.kind = "str" -> JsonString(value.s)
      [] value.kind \in {"list", "tuple"} ->
            LET items == [k \in DOMAIN value.items |->
                             json_dumps(value.items[k])]
            IN  IF \E k \in DOMAIN items : items[k].kind = "raise"
                THEN PyRaise("TypeError")
                ELSE JsonArray(items)
      [] value.kind = "dict" -> JsonString("str(dict)")
      [] OTHER -> PyRaise("TypeError")

json_dumps(value) ==
    CASE value.kind = "None" -> JsonNull
      [] value.kind = "bool" -> JsonLiteral(value.b)
      [] value.kind = "int" -> JsonInteger(value.n)
      [] value.kind = "float" -> JsonReal(value.x)
      [] value.kind = "str" -> JsonString(value.s)
      [] value.kind \in {"list", "tuple"} ->
            LET items == [k \in DOMAIN value.items |->
                             json_dumps(value.items[k])]
            IN  IF \E k \in DOMAIN items : items[k].kind = "raise"
                THEN PyRaise("TypeError")
                ELSE JsonArray(items)
      [] value.kind = "dict" ->
            LET data == [key \in DOMAIN value.data |->
                            json_dumps(value.data[key])]
            IN  IF \E key \in DOMAIN data : data[key].kind = "raise"
                THEN PyRaise("TypeError")
                ELSE JsonObject(data)
      [] OTHER -> PyRaise("TypeError")

\* json.loads(text_data), consumers.py:83.
RECURSIVE json_loads(_)
json_loads(text_data) ==
    CASE text_data.kind = "null" -> PyNone
      [] text_data.kind = "literal" -> PyBool(text_data.b)
      [] text_data.kind = "integer" -> PyInt(text_data.n)
      [] text_data.kind = "real" -> PyFloat(text_data.x)
      [] text_data.kind = "string" -> PyStr(text_data.s)
      [] text_data.kind = "array" ->
            PyList([k \in DOMAIN text_data.items |->
                       json_loads(text_data.items[k])])
      [] text_data.kind = "object" ->
            PyDict([key \in DOMAIN text_data.data |->
                       json_loads(text_data.data[key])])

\* What receive reads from a frame, consumers.py:83-96, 156: the decoded
\* list, its message type and, by position, the message id, the action (the
\* name of the member of OCPPCommands it names) and the payload of a Call,
\* the message id and the payload of a CallResult.
Decoded(text_data) ==
    LET message == json_loads(text_data)
        message_type_id == message.items[1].n
    IN  CASE message_type_id = CALL ->
                [message_type_id |-> message_type_id, message |-> message,
                 message_id |-> message.items[2],
                 action |-> message.items[3],
                 payload |-> message.items[4]]
          [] message_type_id = CALL_RESULT ->
                [message_type_id |-> message_type_id, message |-> message,
                 message_id |-> message.items[2],
                 payload |-> message.items[3]]
          [] OTHER ->
                [message_type_id |-> message_type_id, message |-> message]

\* issue_command, call.py:196-201: the Call frame of a request of class
\* <action>_Req.
ocpp_message(message_id, action, request) ==
    PyList(<< PyInt(CALL), PyStr(message_id), PyStr(action),
              serialize(request) >>)

(***************************************************************************)
(* The arguments the constructors and the handler are called with.         *)
(***************************************************************************)
AnIdToken ==
    Construct("IdToken", [IdToken |-> PyStr("abc")])

APeriod(startPeriod) ==
    Construct("ChargingSchedulePeriod",
              [startPeriod |-> PyInt(startPeriod), limit |-> PyInt(16),
               numberPhases |-> NotPassed])

ArgChoices(class) ==
    CASE class = "IdToken" ->
            [IdToken : {NotPassed, PyNone, PyStr("abc")}]
      [] class = "BootNotification_Conf" ->
            [currentTime : {NotPassed, PyNone, PyDatetime(0)},
             interval : {NotPassed, PyNone, PyInt(10)},
             status : {NotPassed, PyNone, PyEnum("Accepted")}]
      [] class = "RemoteStartTransaction_Req" ->
            [idTag : {NotPassed, PyNone, AnIdToken},
             chargingProfile : {NotPassed},
             connectorId : {NotPassed, PyNone, PyInt(1)}]
      [] class = "GetConfiguration_Req" ->
            [key : {NotPassed, PyNone, PyStr("a"), PyList(<< >>),
                    PyList(<< PyStr("a"), PyStr("b") >>)}]
      [] class = "ChargingSchedulePeriod" ->
            [startPeriod : {NotPassed, PyNone, PyInt(0)},
             limit : {NotPassed, PyNone, PyInt(16)},
             numberPhases : {NotPassed, PyNone, PyInt(3)}]
      [] class = "ChargingSchedule" ->
            [chargingRateUnit : {PyEnum("A")},
             chargingSchedulePeriod :
                 {NotPassed, APeriod(0), PyList(<< APeriod(0) >>),
                  PyList(<< APeriod(0), APeriod(1) >>)},
             duration : {NotPassed, PyNone, PyInt(60)},
             startSchedule : {NotPassed, PyDatetime(1)},
             minChargingRate : {NotPassed}]

CallPayloads ==
    { PyDict(<< >>), PyDict([chargePointModel |-> PyStr("X")]) }

Clock == 0 .. MaxClock

\* The websocket connections and the charger_id in the URL of each,
\* consumers.py:54: two chargers, one of them connected twice.
Connections == {"ws1", "ws2", "ws3"}

charger_id_of(ws) ==
    IF ws = "ws3" THEN "CP2" ELSE "CP1"

\* The frames the server writes (the Call of issue_command for a
\* RemoteStartTransaction_Req, the reply of the BootNotification handler)
\* and the frames a charger writes (a BootNotification Call, a CallResult,
\* a CallError).
Envelopes ==
    { ocpp_message(m, "RemoteStartTransaction",
                   Construct("RemoteStartTransaction_Req",
                             [idTag |-> AnIdToken,
                              chargingProfile |-> NotPassed,
                              connectorId |-> c])) :
          m \in MsgIds, c \in {NotPassed, PyInt(1)} }
    \cup { BootNotification(m, PyDict(<< >>), now) :
              m \in MsgIds, now \in Clock }
    \cup { PyList(<< PyInt(CALL), PyStr(m), PyStr("BootNotification"), p >>) :
              m \in MsgIds, p \in CallPayloads }
    \cup { PyList(<< PyInt(CALL_RESULT), PyStr(m),
                     PyDict([status |-> PyStr(p)]) >>) :
              m \in MsgIds, p \in Payloads }
    \cup { PyList(<< PyInt(CALL_ERROR), PyStr(m), PyStr("GenericError"),
                     PyStr(""), PyDict(<< >>) >>) : m \in MsgIds }

\* What a handler under call_result_message_decorator can do: return a
\* typed payload, one whose serialize() raises, a dict, None, or raise.
HandlerOutcomes ==
    { AnIdToken,
      Construct("GetConfiguration_Req", [key |-> PyList(<< PyStr("a") >>)]),
      PyDict([status |-> PyStr("Accepted")]), PyNone,
      PyRaise("RuntimeError") }

\* The values a keyword argument of OcppType(**kwargs) can hold: one of
\* each kind single_value_serialize tells apart, a nested payload whose own
\* serialize() raises, and a dict and a tuple as values of no known kind.
FieldValues ==
    { PyNone, PyInt(1), PyFloat("16.5"), PyBool(TRUE), PyStr("abc"),
      PyEnum("Accepted"), PyDatetime(0), AnIdToken,
      OcppInit("IdToken", [IdToken |-> PyDict(<< >>)]),
      PyDict(<< >>), [kind |-> "tuple", items |-> << PyInt(1) >>],
      PyList(<< PyStr("a") >>) }

VARIABLES
    calls,      \* table api_call
    results,    \* table api_callresult
    sent,       \* sent[c]: frames group_send has delivered to group ocpp_<c>
    cmd,        \* cmd[t]: the issue_command invocation of caller t
    nrecv,      \* number of frames received so far
    last,       \* the last receive: connection, frame, exception, reply
    py,         \* the last operation on a typed payload and its outcome
    conn,       \* conn[ws]: the websocket is "new", "open" or "closed"
    inbox,      \* inbox[ws]: messages of the channel layer for the consumer
    socket      \* socket[ws]: frames the consumer has written to the socket

vars == << calls, results, sent, cmd, nrecv, last, py, conn, inbox, socket >>

\* The websockets, their consumers and what the channel layer holds for
\* them.
net == << conn, inbox, socket >>

(***************************************************************************)
(* State after start-up: empty tables, nothing sent, no caller active.     *)
(***************************************************************************)
IdleCmd ==
    [ pc |-> "idle", request |-> NoRequest, charger_id |-> "",
      message_id |-> "", action |-> "", shouldAwait |-> FALSE, await_cycles |-> 0, i |-> 0,
      out |-> "pending", ret |-> << >> ]

NoPayload ==
    [ op |-> "none", class |-> "", args |-> << >>, obj |-> PyNone,
      out |-> PyNone ]

NoReceive ==
    [ charger_id |-> "", message |-> << >>, handler |-> "none",
      exc |-> "none", reply |-> << >> ]

Init ==
    /\ calls = << >>
    /\ results = << >>
    /\ sent = [c \in Chargers |-> << >>]
    /\ cmd = [t \in Tasks |-> IdleCmd]
    /\ nrecv = 0
    /\ last = NoReceive
    /\ py = NoPayload
    /\ conn = [ws \in Connections |-> "new"]
    /\ inbox = [ws \in Connections |-> << >>]
    /\ socket = [ws \in Connections |-> << >>]

(***************************************************************************)
(* api/models.py: the rows receive and __save_call create.                 *)
(***************************************************************************)
\* CallRowUnlinked is a Call row that is stored without its link.
CallRowUnlinked(message_id, action, payload, charger_id, direction, call_result_obj) ==
    [ message_type_id |-> CALL, message_id |-> message_id, action |-> action,
      payload |-> payload, charger_id |-> charger_id,
      direction |-> direction, call_result_obj |-> 0 ]

CallRow(message_id, action, payload, charger_id, direction, call_result_obj) ==
    [ message_type_id |-> CALL, message_id |-> message_id, action |-> action,
      payload |-> payload, charger_id |-> charger_id,
      direction |-> direction, call_result_obj |-> call_result_obj ]

CallResultRow(message_type_id, message_id, payload, charger_id, direction, call_obj) ==
    [ message_type_id |-> message_type_id, message_id |-> message_id,
      payload |-> payload, charger_id |-> charger_id,
      direction |-> direction, call_obj |-> call_obj ]

\* Call.objects.filter(message_id = message_id): primary keys of the rows.
CallFilter(message_id) ==
    { pk \in DOMAIN calls : calls[pk].message_id = message_id }

\* The UNIQUE constraint of the OneToOneField CallResult.call_obj: inserting
\* a CallResult that points to call pk fails when another one already does.
CallObjTaken(pk) ==
    \E r \in DOMAIN results : results[r].call_obj = pk

(***************************************************************************)
(* OcppConsumer.receive, consumers.py:80-186, as one step: a consumer      *)
(* handles one frame at a time, and the lookups of the callers only depend *)
(* on which CallResult rows exist, which each receive adds at most once.   *)
(* exc is the exception that leaves receive ("none" when it returns),      *)
(* reply the frame handed to group_send (<< >> when nothing is sent) and   *)
(* handler how the callback ended: "none" when none was looked up,         *)
(* "returned", "AttributeError" when Call.Callbacks has no such attribute, *)
(* "raised" for any other exception.                                       *)
(***************************************************************************)
Received(charger_id, message, handler, exc, reply) ==
    last' = [ charger_id |-> charger_id, message |-> message,
              handler |-> handler, exc |-> exc, reply |-> reply ]

\* receive ends, by return or by an exception, without touching the tables
\* or the channel layer.
NoReply(charger_id, message, handler, exc) ==
    /\ Received(charger_id, message, handler, exc, << >>)
    /\ UNCHANGED << calls, results, sent >>

NoEffect(charger_id, message, exc) ==
    NoReply(charger_id, message, "none", exc)

\* channel_layer.group_send(group, message), consumers.py:118-124 and
\* call.py:216-222: the message joins the end of the messages for the group,
\* which send_ocpp_message writes to the socket one after the other.
\* GroupSendFront is a layer that hands the newest message over first.
GroupSendFront(queue, message) ==
    << message >> \o queue

GroupSend(queue, message) ==
    Append(queue, message)

\* consumers.py:98-103: OCPPCommands[action] inside try / except.
\* KnownActionAny is a lookup that accepts every name.
KnownActionAny(action) ==
    TRUE

KnownAction(action) ==
    action \in OCPPCommands

\* consumers.py:92-150.  handler_fails tells whether the callback raises an
\* exception other than AttributeError, save_fails whether the first save of
\* save_and_link_call_and_result raises (the database refuses the row).
ReceiveCall(charger_id, message, handler_fails, save_fails) ==
    IF Len(message) < 4
    THEN NoEffect(charger_id, message, "IndexError")
    ELSE LET message_id == message[2]
             action == message[3]
             payload == message[4]
         IN  IF ~KnownAction(action)
             THEN NoEffect(charger_id, message, "none")
             ELSE IF action \notin Callbacks
             THEN NoReply(charger_id, message, "AttributeError", "none")
             ELSE IF handler_fails
             THEN NoReply(charger_id, message, "raised", "none")
             ELSE LET response == call_result_message(message_id, action)
                      call_pk == Len(calls) + 1
                      result_pk == Len(results) + 1
                  IN  /\ sent' = [sent EXCEPT
                                    ![charger_id] = GroupSend(@, response)]
                      /\ IF save_fails
                         THEN \* the call of save_and_link_call_and_result
                              \* is in the else clause of the try: nothing
                              \* catches its exception
                              /\ UNCHANGED << calls, results >>
                              /\ Received(charger_id, message, "returned",
                                          "DatabaseError", response)
                         ELSE /\ calls' = Append(calls,
                                    CallRow(message_id, action, payload,
                                            charger_id, "C2S", result_pk))
                              /\ results' = Append(results,
                                    CallResultRow(response[1], response[2],
                                                  response[3], charger_id,
                                                  "S2C", call_pk))
                              /\ Received(charger_id, message, "returned",
                                          "none", response)

\* consumers.py:152-183.
ReceiveCallResult(charger_id, message) ==
    IF Len(message) # 3
    THEN NoEffect(charger_id, message, "ValueError")
    ELSE LET message_id == message[2]
             payload == message[3]
         IN  IF CallFilter(message_id) = {}
             THEN NoEffect(charger_id, message, "none")
             ELSE \E pk \in CallFilter(message_id) :
                    \* call_obj[0] of a queryset without ordering
                    IF CallObjTaken(pk)
                    THEN NoEffect(charger_id, message, "IntegrityError")
                    ELSE /\ results' = Append(results,
                                CallResultRow(CALL_RESULT, message_id,
                                              payload, charger_id, "C2S",
                                              pk))
                         /\ calls' = [calls EXCEPT
                                ![pk].call_result_obj = Len(results) + 1]
                         /\ UNCHANGED sent
                         /\ Received(charger_id, message, "none", "none",
                                     << >>)

\* call.py:151: await asyncio.sleep(await_interval) gives the event loop back
\* for the length of the sleep, and the lookups of the wait run under
\* sync_to_async, so no caller holds the loop that runs receive.
\* LoopHeldBySleep is the loop under a sleep that keeps it (time.sleep).
LoopHeldBySleep ==
    \E t \in DOMAIN cmd : cmd[t].pc = "sleep"

LoopHeld ==
    FALSE

ReceiveFrame(charger_id, message, handler_fails, save_fails) ==
    /\ ~LoopHeld
    /\ nrecv < MaxRecv
    /\ nrecv' = nrecv + 1
    /\ UNCHANGED << cmd, py >>
    /\ IF Len(message) = 0
       THEN \* message[0] fails again inside the except clause
            NoEffect(charger_id, message, "IndexError")
       ELSE IF message[1] \notin OCPPMessageType
       THEN \* message_type_id was never bound
            NoEffect(charger_id, message, "UnboundLocalError")
       ELSE IF message[1] = CALL
       THEN ReceiveCall(charger_id, message, handler_fails, save_fails)
       ELSE IF message[1] = CALL_RESULT
       THEN ReceiveCallResult(charger_id, message)
       ELSE NoEffect(charger_id, message, "none")

\* receive with the callbacks of Call.Callbacks, none of which can fail.
Receive(charger_id, message) ==
    /\ ReceiveFrame(charger_id, message, FALSE, FALSE)
    /\ UNCHANGED net

\* receive of a Call whose callback raises.
ReceiveHandlerFailure(charger_id, message) ==
    /\ Len(message) >= 4
    /\ message[1] = CALL
    /\ message[3] \in OCPPCommands \cap Callbacks
    /\ ReceiveFrame(charger_id, message, TRUE, FALSE)
    /\ UNCHANGED net

\* receive of a Call whose rows the database does not store.
ReceiveSaveFailure(charger_id, message) ==
    /\ Len(message) >= 4
    /\ message[1] = CALL
    /\ message[3] \in OCPPCommands \cap Callbacks
    /\ ReceiveFrame(charger_id, message, FALSE, TRUE)
    /\ UNCHANGED net

(***************************************************************************)
(* Call.CallHandler.issue_command, call.py:158-230.                        *)
(***************************************************************************)
\* call.py:190-193: getattr(ocpp_types, request.__class__.split('.')[-1]).
\* A type has no attribute split, so the lookup only succeeds for a request
\* whose __class__ is a string that ends in a name of ocpp_lib.types.
RequestClassAccepted(request) ==
    /\ request.class_is_str
    /\ request.class_name \in TypesModuleNames

\* call.py:199: str(type(request)).split('.')[-1].strip("'>").split('_')[0]
\* for the type names of the model, which have the form <Action>_Req.
RequestAction(request) ==
    CHOOSE a \in OCPPCommands \cup {"Bogus"} : a \o "_Req" = request.type_name

\* call.py:141: await_cycles = int(await_period / await_interval), for
\* positive whole numbers of seconds.
AwaitCycles(await_period, await_interval) ==
    await_period \div await_interval

Returned(t, out, ret) ==
    cmd' = [cmd EXCEPT ![t].pc = "done", ![t].out = out, ![t].ret = ret]

\* __save_call, call.py:77-111, awaited at call.py:207-213 before the frame
\* is handed to group_send: the row is in the table when it returns.
\* save_call_deferred is a save that has not happened by then.
save_call_deferred(table, call_object) ==
    table

save_call(table, call_object) ==
    Append(table, call_object)

\* issue_command leaves with exception exc before anything is stored.
Raised(t, request, exc) ==
    cmd' = [cmd EXCEPT ![t].pc = "done", ![t].request = request,
                       ![t].out = exc]

\* call.py:188-213: validation of the request, construction of the message
\* with a random message id and __save_call, up to the first suspension.
IssueCommand(t, charger_id, request, message_id, shouldAwait, await_period, await_interval) ==
    /\ cmd[t].pc = "idle"
    /\ \A u \in Tasks : u < t => cmd[u].pc # "idle"
    /\ UNCHANGED << results, sent, nrecv, last, py, net >>
    /\ IF ~RequestClassAccepted(request)
       THEN /\ Raised(t, request, "OCPPInvalidType")
            /\ UNCHANGED calls
       ELSE IF RequestAction(request) \notin OCPPCommands
       THEN \* OCPPCommands[action] while the arguments of __save_call are
            \* evaluated
            /\ Raised(t, request, "KeyError")
            /\ UNCHANGED calls
       ELSE /\ calls' = save_call(calls,
                  CallRow(message_id,
                          OCPPCommandValue(RequestAction(request)),
                          "request", charger_id, "S2C", 0))
            /\ cmd' = [cmd EXCEPT ![t] =
                  [ pc |-> "send", request |-> request,
                    charger_id |-> charger_id,
                    message_id |-> message_id,
                    action |-> RequestAction(request),
                    shouldAwait |-> shouldAwait,
                    await_cycles |-> AwaitCycles(await_period, await_interval),
                    i |-> 0, out |-> "pending", ret |-> << >> ]]

\* call.py:225: if shouldAwait.  AwaitsAlways is a caller that waits for a
\* response whatever the flag says.
AwaitsAlways(shouldAwait) ==
    TRUE

AwaitsResponse(shouldAwait) ==
    shouldAwait

\* call.py:215-230: group_send of the Call frame; without shouldAwait the
\* call returns None, otherwise __await_response starts.
SendCallFrame(t) ==
    /\ cmd[t].pc = "send"
    /\ sent' = [sent EXCEPT ![cmd[t].charger_id] =
           GroupSend(@, << CALL, cmd[t].message_id, cmd[t].action,
                           "request" >>)]
    /\ IF AwaitsResponse(cmd[t].shouldAwait)
       THEN cmd' = [cmd EXCEPT ![t].pc = "poll"]
       ELSE Returned(t, "none", << >>)
    /\ UNCHANGED << calls, results, nrecv, last, py >>

SendCall(t) ==
    /\ SendCallFrame(t)
    /\ UNCHANGED net

(***************************************************************************)
(* Call.CallHandler.__await_response, call.py:114-155.                     *)
(***************************************************************************)
\* A lookup that does not filter by message id.
CallResultMatchesAny(row, message_id) ==
    TRUE

\* The rows CallResult.objects.get(message_id = message_id) selects.
CallResultMatches(row, message_id) ==
    row.message_id = message_id

CallResultGet(message_id) ==
    { r \in DOMAIN results : CallResultMatches(results[r], message_id) }

\* range(0, await_cycles, 1): the loop body runs while i < await_cycles.
InRange(i, await_cycles) ==
    i < await_cycles

\* A loop whose counter does not advance.
NextCycleStuck(i) ==
    i

NextCycle(i) ==
    i + 1

\* call.py:145-149: one lookup.  get raises DoesNotExist for no row and
\* MultipleObjectsReturned for several; both are swallowed.
Poll(t) ==
    /\ cmd[t].pc = "poll"
    /\ InRange(cmd[t].i, cmd[t].await_cycles)
    /\ LET found == CallResultGet(cmd[t].message_id)
       IN  IF Cardinality(found) = 1
           THEN LET objects == results[CHOOSE r \in found : TRUE]
                IN  Returned(t, "result",
                             << objects.message_type_id, objects.message_id,
                                objects.payload >>)
           ELSE cmd' = [cmd EXCEPT ![t].pc = "sleep"]
    /\ UNCHANGED << calls, results, sent, nrecv, last, py, net >>

\* call.py:151: asyncio.sleep(await_interval), then the next cycle.
Sleep(t) ==
    /\ cmd[t].pc = "sleep"
    /\ cmd' = [cmd EXCEPT ![t].pc = "poll", ![t].i = NextCycle(@)]
    /\ UNCHANGED << calls, results, sent, nrecv, last, py, net >>

\* call.py:153-155: the loop is exhausted, the wait returns None.
Timeout(t) ==
    /\ cmd[t].pc = "poll"
    /\ ~InRange(cmd[t].i, cmd[t].await_cycles)
    /\ Returned(t, "timeout", << >>)
    /\ UNCHANGED << calls, results, sent, nrecv, last, py, net >>

(***************************************************************************)
(* Specifications.                                                         *)
(***************************************************************************)
Next ==
    \/ \E c \in Chargers : \E m \in FramesOf(c) : Receive(c, m)
    \/ \E t \in Tasks : \E c \in TargetsOf(t), rq \in Requests,
          m \in RandomIds(t), a \in BOOLEAN, p \in AwaitPeriods,
          iv \in AwaitIntervals :
          IssueCommand(t, c, rq, m, a, p, iv)
    \/ \E t \in Tasks : SendCall(t)
    \/ \E t \in Tasks : Poll(t)
    \/ \E t \in Tasks : Sleep(t)
    \/ \E t \in Tasks : Timeout(t)

Spec == Init /\ [][Next]_vars

\* The event loop runs every task that is ready: a caller that has been
\* started is eventually resumed.
Fairness ==
    \A t \in Tasks :
        WF_vars(SendCall(t) \/ Poll(t) \/ Sleep(t) \/ Timeout(t))

FairSpec == Spec /\ Fairness

\* The same system when a registered callback may raise.
NextHandlerFault ==
    \/ Next
    \/ \E c \in Chargers : \E m \in FramesOf(c) : ReceiveHandlerFailure(c, m)

SpecHandlerFault == Init /\ [][NextHandlerFault]_vars

\* The same system when the database may refuse the rows of a Call.
NextSaveFault ==
    \/ Next
    \/ \E c \in Chargers : \E m \in FramesOf(c) : ReceiveSaveFailure(c, m)

SpecSaveFault == Init /\ [][NextSaveFault]_vars

(***************************************************************************)
(* The typed payloads as a system of their own: a payload is constructed,  *)
(* a constructed payload is serialized, the BootNotification handler is    *)
(* called.  The tables and the callers stay as they are at start-up.       *)
(***************************************************************************)
NewObject(class, args) ==
    /\ py' = [op |-> "construct", class |-> class, args |-> args,
              obj |-> Construct(class, args), out |-> PyNone]
    /\ UNCHANGED << calls, results, sent, cmd, nrecv, last, net >>

Serialize ==
    /\ py.op = "construct"
    /\ py.obj.kind = "object"
    /\ py' = [py EXCEPT !.op = "serialize", !.out = serialize(py.obj)]
    /\ UNCHANGED << calls, results, sent, cmd, nrecv, last, net >>

\* OcppType(value = value).serialize(): the base class keeps any keyword
\* argument that is not None and serializes it by its kind.
SerializeField(value) ==
    /\ py' = [op |-> "field", class |-> "OcppType",
              args |-> [value |-> value],
              obj |-> OcppInit("OcppType", [value |-> value]),
              out |-> serialize(OcppInit("OcppType", [value |-> value]))]
    /\ UNCHANGED << calls, results, sent, cmd, nrecv, last, net >>

\* A frame is written with json.dumps on one side of the connection and
\* read by receive on the other.
Exchange(envelope) ==
    /\ py' = [op |-> "exchange", class |-> "",
              args |-> [envelope |-> envelope],
              obj |-> json_dumps(envelope),
              out |-> Decoded(json_dumps(envelope))]
    /\ UNCHANGED << calls, results, sent, cmd, nrecv, last, net >>

\* receive calls a handler of Call.Callbacks, consumers.py:106-110, which
\* is the inner function of the decorator around a function with the given
\* outcome; invoked counts the calls of that function.
HandleCall(message_id, response) ==
    /\ py' = [op |-> "handler", class |-> "",
              args |-> [message_id |-> PyStr(message_id),
                        response |-> response],
              obj |-> PyNone,
              out |-> call_result_message_decorator(response, message_id),
              invoked |-> function_calls(response)]
    /\ UNCHANGED << calls, results, sent, cmd, nrecv, last, net >>

HandleBootNotification(message_id, call_payload, utcnow) ==
    /\ py' = [op |-> "callback", class |-> "BootNotification",
              args |-> [message_id |-> PyStr(message_id),
                        call_payload |-> call_payload,
                        utcnow |-> PyDatetime(utcnow)],
              obj |-> PyNone,
              out |-> BootNotification(message_id, call_payload, utcnow)]
    /\ UNCHANGED << calls, results, sent, cmd, nrecv, last, net >>

NextTypes ==
    \/ \E class \in TypeClasses : \E args \in ArgChoices(class) :
          NewObject(class, args)
    \/ Serialize
    \/ \E value \in FieldValues : SerializeField(value)
    \/ \E envelope \in Envelopes : Exchange(envelope)
    \/ \E m \in MsgIds, response \in HandlerOutcomes : HandleCall(m, response)
    \/ \E m \in MsgIds, p \in CallPayloads, now \in Clock :
          HandleBootNotification(m, p, now)

SpecTypes == Init /\ [][NextTypes]_vars

(***************************************************************************)
(* The connections.  OcppConsumer.connect adds the channel of the consumer *)
(* to the group of its charger, disconnect takes it out; group_send hands  *)
(* a message to every channel that is in the group at that moment, and the *)
(* consumer writes each message it is handed to its websocket.             *)
(***************************************************************************)
\* consumers.py:55 and call.py:217: f'ocpp_{charger_id}'.  charger_group_one
\* is a naming that puts every charger in one group.
charger_group_one(charger_id) ==
    "ocpp_"

charger_group(charger_id) ==
    "ocpp_" \o charger_id

\* The channels in the group of charger_id.
GroupChannels(charger_id) ==
    { ws \in Connections :
        /\ conn[ws] = "open"
        /\ charger_group(charger_id_of(ws)) = charger_group(charger_id) }

\* The channel layer after the group_send of this step, if there is one:
\* sent[c] grows by the message sent to the group of charger c.
ChannelLayer ==
    inbox' =
        [ws \in Connections |->
            LET groups == { c \in Chargers :
                              /\ Len(sent'[c]) > Len(sent[c])
                              /\ ws \in GroupChannels(c) }
            IN  IF groups = {}
                THEN inbox[ws]
                ELSE LET c == CHOOSE c \in groups : TRUE
                     IN  Append(inbox[ws],
                                [charger_id |-> c,
                                 message |-> sent'[c][Len(sent'[c])]])]

\* consumers.py:51-67: group_add and accept.
Connect(ws) ==
    /\ conn[ws] = "new"
    /\ conn' = [conn EXCEPT ![ws] = "open"]
    /\ UNCHANGED << calls, results, sent, cmd, nrecv, last, py, inbox,
                    socket >>

\* consumers.py:69-77: group_discard; the consumer stops and what the layer
\* still holds for it is never handled.
Disconnect(ws) ==
    /\ conn[ws] = "open"
    /\ conn' = [conn EXCEPT ![ws] = "closed"]
    /\ inbox' = [inbox EXCEPT ![ws] = << >>]
    /\ UNCHANGED << calls, results, sent, cmd, nrecv, last, py, socket >>

\* receive on an open connection: self.charger_id is the charger of the
\* connection, and the reply goes through the channel layer.
ReceiveOn(ws, message) ==
    /\ conn[ws] = "open"
    /\ ReceiveFrame(charger_id_of(ws), message, FALSE, FALSE)
    /\ ChannelLayer
    /\ UNCHANGED << conn, socket >>

\* issue_command's group_send with the connections in place.
SendCallToGroup(t) ==
    /\ SendCallFrame(t)
    /\ ChannelLayer
    /\ UNCHANGED << conn, socket >>

\* consumers.py:189-190: self.send(text_data = event['message']).
send_ocpp_message(ws) ==
    /\ conn[ws] = "open"
    /\ inbox[ws] # << >>
    /\ socket' = [socket EXCEPT ![ws] = Append(@, Head(inbox[ws]))]
    /\ inbox' = [inbox EXCEPT ![ws] = Tail(@)]
    /\ UNCHANGED << calls, results, sent, cmd, nrecv, last, py, conn >>

\* The frames and requests of the system with connections: a Call of a
\* charger, a request that passes the class check and is not awaited.
RoutedFrames ==
    { << CALL, "m1", "BootNotification", "{}" >> }

RoutedRequests ==
    { rq \in Requests :
        RequestClassAccepted(rq) /\ RequestAction(rq) \in OCPPCommands }

NextRouting ==
    \/ \E ws \in Connections : Connect(ws)
    \/ \E ws \in Connections : Disconnect(ws)
    \/ \E ws \in Connections : \E m \in RoutedFrames : ReceiveOn(ws, m)
    \/ \E t \in Tasks : \E c \in TargetsOf(t), rq \in RoutedRequests,
          m \in RandomIds(t) :
          IssueCommand(t, c, rq, m, FALSE, MaxAwaitPeriod, MaxAwaitPeriod)
    \/ \E t \in Tasks : SendCallToGroup(t)
    \/ \E ws \in Connections : send_ocpp_message(ws)

SpecRouting == Init /\ [][NextRouting]_vars

(***************************************************************************)
(* Vocabulary of the properties.                                           *)
(***************************************************************************)
\* The last received frame decodes as a Call / as a CallResult.
LastIsCall ==
    /\ nrecv > 0
    /\ Len(last.message) = 4
    /\ last.message[1] = CALL

LastIsCallResult ==
    /\ nrecv > 0
    /\ Len(last.message) = 3
    /\ last.message[1] = CALL_RESULT

\* The last received frame has no first element or an unknown discriminator.
LastIsUnknownType ==
    /\ nrecv > 0
    /\ \/ Len(last.message) = 0
       \/ last.message[1] \notin OCPPMessageType

\* A reply that answers the last Call: a CallResult or CallError frame that
\* carries the Call's message id.
LastAnswered ==
    /\ Len(last.reply) >= 3
    /\ last.reply[1] \in {CALL_RESULT, CALL_ERROR}
    /\ last.reply[2] = last.message[2]
    /\ Len(sent[last.charger_id]) > 0
    /\ sent[last.charger_id][Len(sent[last.charger_id])] = last.reply

\* The last Call was answered by a CallError with one of the given codes.
LastAnsweredWithError(codes) ==
    /\ LastAnswered
    /\ last.reply[1] = CALL_ERROR
    /\ last.reply[3] \in codes

\* Caller t is inside __await_response.
Awaiting(t) == cmd[t].pc \in {"poll", "sleep"}

\* The CallResult rows that were received from a charge point for id m.
ReceivedResults(m) ==
    { r \in DOMAIN results :
        results[r].message_id = m /\ results[r].direction = "C2S" }

\* Every stored Call with message id m was issued by the server.
OnlyIssued(m) ==
    \A pk \in DOMAIN calls :
        calls[pk].message_id = m => calls[pk].direction = "S2C"

(***************************************************************************)
(* C1: correlation by message id.  A wait is resolved only by a stored     *)
(* CallResult that bears the message id the wait was issued with: the      *)
(* tuple a caller gets back is the tuple of such a row, so a CallResult    *)
(* with id m resolves no wait issued with another id, and the other waits  *)
(* stay pending.                                                           *)
(***************************************************************************)
C1_ResolvedByOwnId ==
    \A t \in Tasks :
        cmd[t].out = "result" =>
            /\ cmd[t].ret[2] = cmd[t].message_id
            /\ \E r \in DOMAIN results :
                /\ results[r].message_id = cmd[t].message_id
                /\ cmd[t].ret = << results[r].message_type_id,
                                   results[r].message_id,
                                   results[r].payload >>

\* Two waits on different devices with different ids were outstanding, the
\* CallResult for the first id arrived and resolved the first wait only.
C1_Witness ==
    /\ cmd[1].out = "result"
    /\ Awaiting(2)
    /\ cmd[1].charger_id # cmd[2].charger_id
    /\ cmd[1].message_id # cmd[2].message_id
    /\ LastIsCallResult
    /\ last.message[2] = cmd[1].message_id

(***************************************************************************)
(* C2: an awaited issue_command always returns.  Once the Call record is   *)
(* stored, the caller eventually gets the matched result or the timeout    *)
(* outcome, whatever frames arrive, and the timeout outcome only after     *)
(* all await_cycles cycles have run.                                       *)
(***************************************************************************)
C2_AwaitReturns ==
    /\ \A t \in Tasks :
          (cmd[t].shouldAwait /\ cmd[t].pc \in {"send", "poll", "sleep"})
              ~> (cmd[t].pc = "done" /\ cmd[t].out \in {"result", "timeout"})
    /\ [](\A t \in Tasks :
            cmd[t].out = "timeout" => cmd[t].i = cmd[t].await_cycles)

\* A wait that polled, found nothing and returned the timeout outcome
\* although frames arrived meanwhile.
C2_Witness ==
    \E t \in Tasks :
        /\ cmd[t].shouldAwait
        /\ cmd[t].out = "timeout"
        /\ cmd[t].await_cycles > 0
        /\ nrecv > 0

(***************************************************************************)
(* C3: every frame that decodes as a Call is answered by exactly one       *)
(* CallResult or CallError with the Call's message id.                     *)
(***************************************************************************)
C3_EveryCallAnswered ==
    LastIsCall => (last.exc = "none" /\ LastAnswered)

(***************************************************************************)
(* C4: a Call whose action is not in OCPPCommands is answered by a         *)
(* CallError NotImplemented with the Call's id, and receive does not       *)
(* raise.                                                                  *)
(***************************************************************************)
C4_UnknownActionAnswered ==
    (LastIsCall /\ last.message[3] \notin OCPPCommands) =>
        (last.exc = "none" /\ LastAnsweredWithError({"NotImplemented"}))

(***************************************************************************)
(* C5: a Call whose handler fails is answered by a CallError               *)
(* FormationViolation or InternalError with the Call's id, and receive     *)
(* does not raise.                                                         *)
(***************************************************************************)
C5_HandlerFailureAnswered ==
    (LastIsCall /\ last.handler = "raised") =>
        (last.exc = "none"
         /\ LastAnsweredWithError({"FormationViolation", "InternalError"}))

(***************************************************************************)
(* C6: a Call whose action is in OCPPCommands but has no callback in       *)
(* Call.Callbacks is answered by a CallError NotImplemented with the       *)
(* Call's id.                                                              *)
(***************************************************************************)
C6_NoHandlerAnswered ==
    (LastIsCall /\ last.message[3] \in OCPPCommands \ Callbacks) =>
        (last.exc = "none" /\ LastAnsweredWithError({"NotImplemented"}))

(***************************************************************************)
(* C7: a frame without a first element, or with a first element other than *)
(* 2, 3, 4, is dropped: nothing is sent and receive returns without        *)
(* raising.                                                                *)
(***************************************************************************)
C7_UnknownTypeDropped ==
    LastIsUnknownType => (last.exc = "none" /\ last.reply = << >>)

(***************************************************************************)
(* C8: once an awaited call has timed out, a CallResult that arrives with  *)
(* its message id is discarded: no row is stored or changed.  Stated for   *)
(* ids all of whose calls were issued by the server and have timed out.    *)
(***************************************************************************)
AllTimedOut(m) ==
    /\ \E t \in Tasks : cmd[t].message_id = m
    /\ \A t \in Tasks :
          cmd[t].message_id = m =>
              (cmd[t].out = "timeout" /\ cmd[t].await_cycles > 0)
    /\ OnlyIssued(m)

C8_LateResultDiscarded ==
    [][ ( /\ nrecv' = nrecv + 1
          /\ Len(last'.message) = 3
          /\ last'.message[1] = CALL_RESULT
          /\ AllTimedOut(last'.message[2]) )
        => (results' = results /\ calls' = calls) ]_vars

(***************************************************************************)
(* C9: when a second CallResult arrives for the id of one outbound call,   *)
(* it is dropped and receive does not raise.  Stated for an id with one    *)
(* stored Call, issued by the server, sent and awaited, whose first        *)
(* CallResult is recorded.                                                 *)
(***************************************************************************)
SentAndAwaited(m) ==
    \E t \in Tasks :
        /\ cmd[t].message_id = m
        /\ cmd[t].shouldAwait
        /\ cmd[t].pc \in {"poll", "sleep", "done"}

C9_SecondResultDropped ==
    ( /\ LastIsCallResult
      /\ Cardinality(CallFilter(last.message[2])) = 1
      /\ OnlyIssued(last.message[2])
      /\ SentAndAwaited(last.message[2])
      /\ ReceivedResults(last.message[2]) # {} )
    => last.exc = "none"

(***************************************************************************)
(* C10: the timeout outcome is returned only when no matching CallResult   *)
(* was recorded before the deadline.  Stated for waits that poll at least  *)
(* once and for a single matching row, recorded from a charge point.       *)
(***************************************************************************)
C10_ResultBeforeDeadlineWins ==
    [][ \A t \in Tasks :
          ( /\ cmd[t].out = "pending"
            /\ cmd'[t].out = "timeout"
            /\ cmd[t].await_cycles > 0 )
          => ~ ( /\ Cardinality(CallResultGet(cmd[t].message_id)) = 1
                 /\ ReceivedResults(cmd[t].message_id) # {} ) ]_vars

(***************************************************************************)
(* C11: a CallError frame that arrives with the message id of a pending    *)
(* awaited call, from the charge point the call was sent to, resolves that *)
(* wait: on receipt the caller has the error outcome, or the error is      *)
(* recorded for the lookup of the wait.                                    *)
(***************************************************************************)
C11_CallErrorResolvesWait ==
    [][ \A t \in Tasks :
          ( /\ Awaiting(t)
            /\ InRange(cmd[t].i, cmd[t].await_cycles)
            /\ nrecv' = nrecv + 1
            /\ Len(last'.message) = 5
            /\ last'.message[1] = CALL_ERROR
            /\ last'.message[2] = cmd[t].message_id
            /\ last'.charger_id = cmd[t].charger_id )
          => (cmd'[t].out # "pending" \/ results' # results) ]_vars

(***************************************************************************)
(* C12: pending outbound calls are keyed by device and message id.  A      *)
(* CallResult received from a charge point is linked only to a call that   *)
(* was issued to that charge point (stated for calls that were sent and    *)
(* are awaited), and the tuple an awaiting caller gets                     *)
(* back is that of a row stored for the charge point the call was issued   *)
(* to.                                                                     *)
(***************************************************************************)
C12_KeyedByDevice ==
    /\ \A r \in DOMAIN results :
          ( /\ results[r].direction = "C2S"
            /\ results[r].call_obj # 0
            /\ calls[results[r].call_obj].direction = "S2C"
            /\ SentAndAwaited(results[r].message_id) )
          => calls[results[r].call_obj].charger_id = results[r].charger_id
    /\ \A t \in Tasks :
          cmd[t].out = "result" =>
              \E r \in DOMAIN results :
                  /\ results[r].message_id = cmd[t].ret[2]
                  /\ results[r].payload = cmd[t].ret[3]
                  /\ results[r].charger_id = cmd[t].charger_id

(***************************************************************************)
(* C13: a CallResult whose message id matches no call that was ever issued *)
(* is an orphan: receive stores and changes no row, sends no frame,        *)
(* resolves no caller and completes without raising.                       *)
(***************************************************************************)
NeverIssued(m) ==
    \A pk \in DOMAIN calls :
        calls[pk].message_id = m => calls[pk].direction # "S2C"

C13_OrphanResultDiscarded ==
    [][ ( /\ nrecv' = nrecv + 1
          /\ Len(last'.message) = 3
          /\ last'.message[1] = CALL_RESULT
          /\ NeverIssued(last'.message[2]) )
        => ( /\ results' = results
             /\ calls' = calls
             /\ sent' = sent
             /\ cmd' = cmd
             /\ last'.exc = "none" ) ]_vars

(***************************************************************************)
(* C14: issue_command with an instance of a request class of               *)
(* ocpp_lib.types passes the validation of the request and sends exactly   *)
(* one Call frame to the target charger, with the message id of the call   *)
(* and the action name of the request type.                                *)
(***************************************************************************)
TypesRequest(request) ==
    /\ ~request.class_is_str
    /\ request.class_name = request.type_name
    /\ request.type_name \in TypesModuleNames

CallFramesSent(t) ==
    { k \in DOMAIN sent[cmd[t].charger_id] :
        sent[cmd[t].charger_id][k] =
            << CALL, cmd[t].message_id, RequestAction(cmd[t].request),
               "request" >> }

C14_TypesRequestSent ==
    \A t \in Tasks :
        TypesRequest(cmd[t].request) =>
            /\ cmd[t].out \notin {"OCPPInvalidType", "KeyError"}
            /\ cmd[t].pc # "send" => Cardinality(CallFramesSent(t)) = 1

(***************************************************************************)
(* C15: when the CallResult for an awaited call arrives within the         *)
(* timeout, issue_command returns exactly its payload: the returned value  *)
(* has the payload as its only component, and not the message type and     *)
(* the message id beside it.  Stated for ids all of whose stored           *)
(* CallResults were received from a charge point.                          *)
(***************************************************************************)
ReturnsPayloadOnly(t) ==
    \E r \in CallResultGet(cmd[t].message_id) :
        cmd[t].ret = << results[r].payload >>

C15_ReturnsPayload ==
    \A t \in Tasks :
        ( /\ cmd[t].out = "result"
          /\ CallResultGet(cmd[t].message_id)
                 = ReceivedResults(cmd[t].message_id) )
        => ReturnsPayloadOnly(t)

(***************************************************************************)
(* C16: issue_command with a request whose action name is not in the       *)
(* action registry fails at once with OCPPInvalidCommand or                *)
(* OCPPInvalidType, and neither stores a call record nor sends a frame.    *)
(***************************************************************************)
C16_UnknownActionRejected ==
    [][ \A t \in Tasks :
          ( /\ cmd[t].pc = "idle"
            /\ cmd'[t].pc # "idle"
            /\ RequestAction(cmd'[t].request) \notin OCPPCommands )
          => ( /\ cmd'[t].pc = "done"
               /\ cmd'[t].out \in {"OCPPInvalidCommand", "OCPPInvalidType"}
               /\ calls' = calls
               /\ sent' = sent ) ]_vars

(***************************************************************************)
(* C17: issue_command with shouldAwait = False sends the Call frame and    *)
(* returns None at once.  Such a caller is never inside __await_response   *)
(* and never looked a response up; the step after the call is stored       *)
(* sends the frame and returns None; and the value returned stays None     *)
(* whatever is received afterwards.                                        *)
(***************************************************************************)
C17_NoAwaitReturnsNone ==
    /\ [] ( \A t \in Tasks :
              /\ ~cmd[t].shouldAwait =>
                    ( /\ ~Awaiting(t)
                      /\ cmd[t].i = 0
                      /\ cmd[t].out \notin {"result", "timeout"} )
              /\ cmd[t].out = "none" =>
                    ( /\ ~cmd[t].shouldAwait
                      /\ cmd[t].ret = << >>
                      /\ CallFramesSent(t) # {} ) )
    /\ [][ \A t \in Tasks :
             /\ ( /\ cmd[t].pc = "send"
                  /\ ~cmd[t].shouldAwait
                  /\ cmd'[t] # cmd[t] )
                => ( /\ cmd'[t].pc = "done"
                     /\ cmd'[t].out = "none"
                     /\ Len(sent'[cmd[t].charger_id])
                           = Len(sent[cmd[t].charger_id]) + 1 )
             /\ cmd[t].out = "none" => cmd'[t] = cmd[t] ]_vars

\* A caller has returned None and a CallResult with the id of its call is
\* recorded from the charge point.
C17_Witness ==
    \E t \in Tasks :
        /\ cmd[t].out = "none"
        /\ ReceivedResults(cmd[t].message_id) # {}

(***************************************************************************)
(* C18: at every instant, no two outstanding outbound calls to the same    *)
(* charger carry the same message id.  Stated for two callers that are     *)
(* both inside __await_response.                                           *)
(***************************************************************************)
C18_PendingIdsUnique ==
    \A t, u \in Tasks :
        ( /\ t # u
          /\ Awaiting(t)
          /\ Awaiting(u)
          /\ cmd[t].charger_id = cmd[u].charger_id )
        => cmd[t].message_id # cmd[u].message_id

(***************************************************************************)
(* C19: for a single charger, the replies to its Calls are sent in the     *)
(* order in which the Calls were received.  The stored Calls of a charger  *)
(* are in the order of their receipt, so the message ids of the replies    *)
(* sent to the charger, in the order sent, are the message ids of its      *)
(* stored Calls, in the order stored.                                      *)
(***************************************************************************)
MessageIds(frames) ==
    [k \in DOMAIN frames |-> frames[k][2]]

RepliesSent(charger_id) ==
    LET IsReply(frame) == frame[1] = CALL_RESULT
    IN  MessageIds(SelectSeq(sent[charger_id], IsReply))

CallsReceived(charger_id) ==
    LET FromCharger(row) ==
            row.direction = "C2S" /\ row.charger_id = charger_id
        rows == SelectSeq(calls, FromCharger)
    IN  [k \in DOMAIN rows |-> rows[k].message_id]

C19_RepliesInOrder ==
    \A c \in Chargers : RepliesSent(c) = CallsReceived(c)

\* A charger was answered two Calls with different message ids.
C19_Witness ==
    \E c \in Chargers :
        /\ Len(RepliesSent(c)) = 2
        /\ RepliesSent(c)[1] # RepliesSent(c)[2]

ConcurrentWaits(t, u) ==
    /\ t # u
    /\ Awaiting(t)
    /\ Awaiting(u)
    /\ cmd[t].charger_id = cmd[u].charger_id
    /\ cmd[t].message_id # cmd[u].message_id

C21_ConcurrentWaitsIndependent ==
    [][ /\ \A t, u \in Tasks :
              ( /\ ConcurrentWaits(t, u)
                /\ nrecv' = nrecv + 1
                /\ Len(last'.message) = 3
                /\ last'.message[1] = CALL_RESULT
                /\ last'.message[2] = cmd[t].message_id )
              => ( /\ cmd'[u] = cmd[u]
                   /\ CallResultGet(cmd[u].message_id)'
                         = CallResultGet(cmd[u].message_id) )
        /\ \A u \in Tasks :
              ( /\ cmd[u].pc = "poll"
                /\ InRange(cmd[u].i, cmd[u].await_cycles)
                /\ cmd'[u] # cmd[u] )
              => LET found == CallResultGet(cmd[u].message_id)
                 IN  /\ Cardinality(found) = 1 =>
                           /\ cmd'[u].out = "result"
                           /\ \A r \in found :
                                 cmd'[u].ret = << results[r].message_type_id,
                                                  results[r].message_id,
                                                  results[r].payload >>
                     /\ found = {} => cmd'[u].pc = "sleep" ]_vars

\* Two callers wait on one charger with different ids; the CallResult of the
\* call issued second was received first and has resolved it, while the
\* caller that issued first still waits.
C21_Witness ==
    /\ cmd[1].charger_id = cmd[2].charger_id
    /\ cmd[1].message_id # cmd[2].message_id
    /\ Awaiting(1)
    /\ ReceivedResults(cmd[1].message_id) = {}
    /\ cmd[2].out = "result"
    /\ \E r \in ReceivedResults(cmd[2].message_id) :
          cmd[2].ret = << CALL_RESULT, cmd[2].message_id, results[r].payload >>

(***************************************************************************)
(* C22: a frame with a known discriminator and the wrong number of         *)
(* elements for its kind (4 for a Call, 3 for a CallResult, 5 for a        *)
(* CallError) is rejected as a parse error: no handler runs, nothing is    *)
(* sent back and receive does not raise.                                   *)
(***************************************************************************)
FrameLength(message_type_id) ==
    IF message_type_id = CALL THEN 4
    ELSE IF message_type_id = CALL_RESULT THEN 3
    ELSE 5

LastHasWrongLength ==
    /\ nrecv > 0
    /\ Len(last.message) > 0
    /\ last.message[1] \in OCPPMessageType
    /\ Len(last.message) # FrameLength(last.message[1])

C22_WrongLengthRejected ==
    LastHasWrongLength =>
        ( /\ last.exc = "none"
          /\ last.handler = "none"
          /\ last.reply = << >> )

(***************************************************************************)
(* C23: when the handler of an inbound Call succeeds, the reply is a frame *)
(* of three elements [3, id, payload] whose id is the message id of the    *)
(* Call it answers and whose payload is the serialized response of the     *)
(* handler of the Call's action; it is sent to the charger of the Call,    *)
(* and each CallResult frame sent to a charger carries the id of a Call    *)
(* stored for that charger.                                                *)
(***************************************************************************)
C23_ReplyCarriesCallId ==
    /\ (LastIsCall /\ last.handler = "returned") =>
          /\ Len(last.reply) = 3
          /\ last.reply[1] = CALL_RESULT
          /\ last.reply[2] = last.message[2]
          /\ last.reply[3] = ConfPayload(last.message[3])
          /\ \E k \in DOMAIN sent[last.charger_id] :
                sent[last.charger_id][k] = last.reply
    /\ \A c \in Chargers :
          \A k \in DOMAIN sent[c] :
              sent[c][k][1] = CALL_RESULT =>
                  \E pk \in DOMAIN calls :
                      /\ calls[pk].direction = "C2S"
                      /\ calls[pk].charger_id = c
                      /\ calls[pk].message_id = sent[c][k][2]

\* A Call with message id m2 was answered.
C23_Witness ==
    /\ LastIsCall
    /\ last.handler = "returned"
    /\ last.message[2] = "m2"
    /\ last.reply = << CALL_RESULT, "m2", ConfPayload(last.message[3]) >>

(***************************************************************************)
(* C24: for a BootNotification Call with any message id m and any payload, *)
(* the handler's reply is [3, m, P] where P is a dict with exactly the     *)
(* keys currentTime, interval and status: currentTime is the ISO-8601      *)
(* string of the time of the call, interval is 10 and status is the string *)
(* "Accepted".                                                             *)
(***************************************************************************)
C24_BootNotificationReply ==
    py.op = "callback" =>
        /\ py.out.kind = "list"
        /\ Len(py.out.items) = 3
        /\ py.out.items[1] = PyInt(CALL_RESULT)
        /\ py.out.items[2] = py.args.message_id
        /\ LET P == py.out.items[3]
           IN  /\ P.kind = "dict"
               /\ DOMAIN P.data = {"currentTime", "interval", "status"}
               /\ P.data["currentTime"] = PyStr(IsoFormat(py.args.utcnow.t))
               /\ P.data["interval"] = PyInt(10)
               /\ P.data["status"] = PyStr("Accepted")

\* The handler was called with message id m2 and the empty object.
C24_Witness ==
    /\ py.op = "callback"
    /\ py.args.message_id = PyStr("m2")
    /\ py.args.call_payload = PyDict(<< >>)
    /\ py.out.kind = "list"

(***************************************************************************)
(* C25: the storing of the records is fire-and-forget for receive: when    *)
(* the handler of a Call has returned, its reply is sent to the charger    *)
(* and receive does not raise, whether or not the rows could be stored.    *)
(***************************************************************************)
C25_SaveFailureContained ==
    (LastIsCall /\ last.handler = "returned") =>
        /\ \E k \in DOMAIN sent[last.charger_id] :
              sent[last.charger_id][k] = last.reply
        /\ last.exc = "none"

(***************************************************************************)
(* C26: for every Call the dispatcher has produced a response to, both     *)
(* sides of the exchange are stored: a Call row of direction C2S and a     *)
(* response row of direction S2C, with the message id of the exchange and  *)
(* the charger id of the connection, each linked to the other.  Stated     *)
(* for every CallResult or CallError frame sent to a charger.              *)
(***************************************************************************)
ExchangeStored(charger_id, response) ==
    \E pk \in DOMAIN calls :
        /\ calls[pk].direction = "C2S"
        /\ calls[pk].message_id = response[2]
        /\ calls[pk].charger_id = charger_id
        /\ calls[pk].call_result_obj \in DOMAIN results
        /\ LET row == results[calls[pk].call_result_obj]
           IN  /\ row.direction = "S2C"
               /\ row.message_type_id = response[1]
               /\ row.message_id = response[2]
               /\ row.charger_id = charger_id
               /\ row.call_obj = pk

C26_ExchangeStored ==
    \A c \in Chargers :
        \A k \in DOMAIN sent[c] :
            sent[c][k][1] \in {CALL_RESULT, CALL_ERROR} =>
                ExchangeStored(c, sent[c][k])

\* Both chargers were answered a Call, with the same message id.
C26_Witness ==
    \A c \in Chargers :
        \E k \in DOMAIN sent[c] :
            /\ sent[c][k][1] = CALL_RESULT
            /\ sent[c][k][2] = "m1"
            /\ ExchangeStored(c, sent[c][k])

(***************************************************************************)
(* C27: the action registry is a closed vocabulary: receive looks a        *)
(* handler up, and a handler runs, only for a Call whose action name is a  *)
(* member of OCPPCommands; a Call with any other name reaches no handler   *)
(* and gets no reply.  The registry itself is a constant: no step changes  *)
(* it.                                                                     *)
(***************************************************************************)
C27_RegistryClosed ==
    ( /\ nrecv > 0
      /\ Len(last.message) >= 4
      /\ last.message[1] = CALL )
    => /\ last.handler # "none" =>
             \E n \in DOMAIN OCPPCommandNames :
                 OCPPCommandNames[n] = last.message[3]
       /\ last.reply # << >> =>
             \E n \in DOMAIN OCPPCommandNames :
                 OCPPCommandNames[n] = last.message[3]

\* A Call with a name outside the registry was received and dropped.
C27_Witness ==
    /\ LastIsCall
    /\ last.message[3] = "Bogus"
    /\ last.handler = "none"
    /\ last.reply = << >>

(***************************************************************************)
(* C28: for every typed payload class and every choice of optional fields  *)
(* left absent (not passed, or passed as None), serialize() returns a dict *)
(* with no key for an absent optional field and no null value, the         *)
(* list-typed optional fields included.  Stated for payloads that are      *)
(* constructed without a list among their arguments.                       *)
(***************************************************************************)
Absent(value) ==
    value.kind \in {"NotPassed", "None"}

NoListArgument ==
    \A p \in DOMAIN py.args : py.args[p].kind # "list"

C28_AbsentOptionalOmitted ==
    (py.op = "serialize" /\ NoListArgument) =>
        /\ py.out.kind = "dict"
        /\ \A p \in OptionalFields(py.class) :
              Absent(py.args[p]) => p \notin DOMAIN py.out.data
        /\ \A key \in DOMAIN py.out.data :
              py.out.data[key].kind # "None"

(***************************************************************************)
(* C29: constructing a typed payload without a value for one of its        *)
(* required fields (the field not passed, or passed as None) fails at      *)
(* construction, so that no constructed payload serializes to a dict that  *)
(* lacks one of its required keys.                                         *)
(***************************************************************************)
C29_RequiredFieldsEnforced ==
    /\ ( /\ py.op \in {"construct", "serialize"}
         /\ \E p \in RequiredFields(py.class) : Absent(py.args[p]) )
       => py.obj.kind = "raise"
    /\ (py.op = "serialize" /\ py.out.kind = "dict")
       => RequiredFields(py.class) \subseteq DOMAIN py.out.data

(***************************************************************************)
(* C30: a field whose value is a list serializes element by element:       *)
(* serialize() returns a dict that holds under the key a list of the same  *)
(* length and order, each element serialized by the rules of a single      *)
(* value; it neither raises nor puts a null in the place of the list.      *)
(* Stated for the fields the caller passes a list for.                     *)
(***************************************************************************)
C30_ListsSerializeElementwise ==
    py.op = "serialize" =>
        \A key \in DOMAIN py.obj.data :
            py.args[key].kind = "list" =>
                /\ py.out.kind = "dict"
                /\ key \in DOMAIN py.out.data
                /\ py.out.data[key].kind = "list"
                /\ Len(py.out.data[key].items) = Len(py.obj.data[key].items)
                /\ \A k \in DOMAIN py.obj.data[key].items :
                      py.out.data[key].items[k] =
                          single_value_serialize(py.obj.data[key].items[k])

(***************************************************************************)
(* C31: for every field value that is not a list, serialize() applies the  *)
(* one rule of the value's kind: the member of an Enum becomes its value,  *)
(* a datetime its ISO-8601 string, a nested typed payload the dict of its  *)
(* own serialize(), a str, int, float or bool stays as it is, and a value  *)
(* of any other kind makes serialize() raise instead of returning a dict.  *)
(***************************************************************************)
C31_OneRulePerKind ==
    (py.op = "field" /\ py.args.value.kind \notin {"list", "None"}) =>
        LET value == py.args.value
            Emitted(x) == py.out = PyDict([value |-> x])
        IN  CASE value.kind = "enum" -> Emitted(PyStr(value.value))
              [] value.kind = "datetime" -> Emitted(PyStr(IsoFormat(value.t)))
              [] value.kind = "object" ->
                    IF serialize(value).kind = "dict"
                    THEN Emitted(serialize(value))
                    ELSE py.out = serialize(value)
              [] value.kind \in {"str", "int", "float", "bool"} ->
                    Emitted(value)
              [] OTHER -> py.out = PyRaise("ValueError")

\* serialize() has raised for a payload that holds a dict.
C31_Witness ==
    /\ py.op = "field"
    /\ py.args.value = PyDict(<< >>)
    /\ py.out = PyRaise("ValueError")

(***************************************************************************)
(* C32: writing and reading a frame round-trip: for every valid envelope   *)
(* (Call [2, id, action, payload], CallResult [3, id, payload], CallError  *)
(* [4, id, code, description, details]) reading the written frame yields   *)
(* the envelope again: the same list, the same message type and, read by   *)
(* position, the same message id, action and payload.                      *)
(***************************************************************************)
C32_RoundTrip ==
    py.op = "exchange" =>
        LET e == py.args.envelope.items
            d == py.out
        IN  /\ d.message = py.args.envelope
            /\ d.message_type_id = e[1].n
            /\ d.message_type_id \in {CALL, CALL_RESULT} =>
                  d.message_id = e[2]
            /\ d.message_type_id = CALL =>
                  (d.action = e[3] /\ d.payload = e[4])
            /\ d.message_type_id = CALL_RESULT => d.payload = e[3]

\* The Call of issue_command with a nested payload was written and read.
C32_Witness ==
    /\ py.op = "exchange"
    /\ py.out.message_type_id = CALL
    /\ py.out.action = PyStr("RemoteStartTransaction")
    /\ py.out.payload =
           PyDict([idTag |-> PyDict([IdToken |-> PyStr("abc")]),
                   connectorId |-> PyInt(1)])

(***************************************************************************)
(* C33: an awaited outbound call is resolved only by a CallResult that was *)
(* received from a charger: whenever issue_command has returned a result,  *)
(* a CallResult row of direction C2S with the returned message id and      *)
(* payload exists; the row the server stored for its own reply to a Call   *)
(* of a charger (direction S2C) is never what the caller gets.             *)
(***************************************************************************)
C33_ResolvedByDeviceResultOnly ==
    \A t \in Tasks :
        cmd[t].out = "result" =>
            \E r \in DOMAIN results :
                /\ results[r].direction = "C2S"
                /\ results[r].message_id = cmd[t].ret[2]
                /\ results[r].payload = cmd[t].ret[3]

(***************************************************************************)
(* C34: an inbound CallResult is linked only to a Call the server issued   *)
(* (direction S2C) that has no result yet: every stored CallResult of      *)
(* direction C2S points to a Call row of direction S2C that points back to *)
(* it and to which no other CallResult points; and the receive of a        *)
(* CallResult whose id is that of a charger's own Call or of a Call that   *)
(* already has its result does not raise.                                  *)
(***************************************************************************)
LinkedToOpenIssuedCall(r) ==
    /\ results[r].call_obj \in DOMAIN calls
    /\ calls[results[r].call_obj].direction = "S2C"
    /\ calls[results[r].call_obj].call_result_obj = r
    /\ \A q \in DOMAIN results :
          results[q].call_obj = results[r].call_obj => q = r

C34_LinkedOnlyToOpenIssuedCall ==
    /\ \A r \in DOMAIN results :
          results[r].direction = "C2S" => LinkedToOpenIssuedCall(r)
    /\ LastIsCallResult => last.exc = "none"

(***************************************************************************)
(* C35: issue_command stores the Call row before it hands the Call frame   *)
(* to the channel layer: for every Call frame sent to a charger the Call   *)
(* row of direction S2C with its message id and charger is in the table,   *)
(* so the lookup receive makes for the charger's CallResult finds a row    *)
(* however soon the reply comes, and the reply is not taken for an orphan. *)
(***************************************************************************)
IssuedCallStored(charger_id, message) ==
    \E pk \in CallFilter(message[2]) :
        /\ calls[pk].direction = "S2C"
        /\ calls[pk].charger_id = charger_id

C35_StoredBeforeSent ==
    \A c \in Chargers :
        \A k \in DOMAIN sent[c] :
            sent[c][k][1] = CALL => IssuedCallStored(c, sent[c][k])

\* The reply to a Call frame came while its caller had not made a lookup
\* yet, and was linked to the stored Call.
C35_Witness ==
    /\ LastIsCallResult
    /\ last.exc = "none"
    /\ \E t \in Tasks :
          /\ cmd[t].message_id = last.message[2]
          /\ cmd[t].charger_id = last.charger_id
          /\ cmd[t].pc = "poll"
          /\ cmd[t].i = 0
          /\ CallFramesSent(t) # {}
          /\ \E r \in ReceivedResults(cmd[t].message_id) :
                /\ results[r].call_obj \in DOMAIN calls
                /\ calls[results[r].call_obj].direction = "S2C"

C37_LooksBeforeTimeout ==
    \A t \in Tasks :
        cmd[t].out = "timeout" => cmd[t].i >= 1

(***************************************************************************)
(* C38: frames are routed only to the charger they are meant for: a reply  *)
(* is sent to the group of the charger whose connection received the Call  *)
(* and to no other, an outbound Call to the group of the charger_id given  *)
(* to issue_command and to no other, and whatever a connection is handed   *)
(* or writes to its socket was sent to the group of its own charger id,    *)
(* and it is written only while the connection is open.                    *)
(***************************************************************************)
SentTo(c) ==
    Len(sent'[c]) > Len(sent[c])

C38_RoutedToOwnCharger ==
    /\ [](\A ws \in Connections :
             /\ \A k \in DOMAIN socket[ws] :
                   socket[ws][k].charger_id = charger_id_of(ws)
             /\ \A k \in DOMAIN inbox[ws] :
                   inbox[ws][k].charger_id = charger_id_of(ws))
    /\ [][ /\ \A c \in Chargers :
                (SentTo(c) /\ nrecv' # nrecv) =>
                    /\ c = last'.charger_id
                    /\ sent'[c] = Append(sent[c], last'.reply)
           /\ \A c \in Chargers :
                (SentTo(c) /\ nrecv' = nrecv) =>
                    \E t \in Tasks :
                        /\ cmd[t].pc = "send"
                        /\ cmd'[t].pc # "send"
                        /\ c = cmd[t].charger_id
                        /\ sent'[c][Len(sent'[c])][2] = cmd[t].message_id
           /\ \A ws \in Connections :
                socket'[ws] # socket[ws] =>
                    (conn[ws] = "open" /\ conn'[ws] = "open") ]_vars

\* Both connections of CP1 have written a Call of issue_command and the
\* connection of CP2 the reply to its own Call.
C38_Witness ==
    /\ \E k \in DOMAIN socket["ws1"] : socket["ws1"][k].message[1] = CALL
    /\ \E k \in DOMAIN socket["ws2"] : socket["ws2"][k].message[1] = CALL
    /\ \E k \in DOMAIN socket["ws3"] :
          socket["ws3"][k].message[1] = CALL_RESULT

(***************************************************************************)
(* C39: an inbound Call invokes its handler function exactly once,         *)
(* whatever the function returns or raises: building the reply does not    *)
(* run it a second time, also when the serialization of what it returned   *)
(* fails.                                                                  *)
(***************************************************************************)
C39_HandlerInvokedOnce ==
    py.op = "handler" => py.invoked = 1

====
